---- MODULE Spec2Model ----
(***************************************************************************)
(* The URL shortener of src/main.py over the two tables of src/database.py *)
(* (urls, analytics).  Every HTTP request is served by its own worker with *)
(* its own database session; the only shared state is the database, and    *)
(* every commit is atomic.  A handler is cut into steps at its database     *)
(* accesses, so that requests interleave exactly where the code lets them.  *)
(* Time is the value datetime.utcnow() returns, counted in days.            *)
(* src/main.py has no hard delete (database.py only declares the cascade);  *)
(* delete_link follows section 4.3 of spec.md and races with the handlers.  *)
(***************************************************************************)
EXTENDS Integers, Sequences, FiniteSets, TLC

\* ------------------------------------------------------------------ bounds
MaxLinks   == 3     \* rows of urls (stored plus being created)
MaxVisits  == 2     \* rows of analytics (stored plus being recorded)
MaxTime    == 2     \* last value of the clock
MaxDays    == 1     \* largest expires_in_days a request carries

\* The workers that serve requests concurrently.
Workers == { "w1", "w2" }

\* ------------------------------------------------------- program constants
CodeLength     == 6      \* generate_short_code(length=6)
MaxAliasLength == 50     \* Field(None, max_length=50)

HTTP_200_OK                   == 200
HTTP_201_CREATED              == 201
HTTP_307_TEMPORARY_REDIRECT   == 307
HTTP_400_BAD_REQUEST          == 400
HTTP_404_NOT_FOUND            == 404
HTTP_410_GONE                 == 410
HTTP_422_VALIDATION_ERROR     == 422   \* ValueError raised by a field validator
HTTP_500_INTEGRITY_ERROR      == 500   \* IntegrityError escaping db.commit()

\* ----------------------------------------------------------- Python values
\* A str is a sequence of one-character strings.
LowerCase == << "a","b","c","d","e","f","g","h","i","j","k","l","m",
                "n","o","p","q","r","s","t","u","v","w","x","y","z" >>
UpperCase == << "A","B","C","D","E","F","G","H","I","J","K","L","M",
                "N","O","P","Q","R","S","T","U","V","W","X","Y","Z" >>
Digits    == << "0","1","2","3","4","5","6","7","8","9" >>

Range(s) == { s[i] : i \in DOMAIN s }

\* str.isalnum() of one ASCII character.
IsAlnumChar(c) == c \in Range(LowerCase) \cup Range(UpperCase) \cup Range(Digits)

\* str.lower() of one ASCII character.
LowerChar(c) ==
    IF c \in Range(UpperCase)
    THEN LowerCase[CHOOSE i \in DOMAIN UpperCase : UpperCase[i] = c]
    ELSE c

\* str.lower()
Lower(s) == [i \in DOMAIN s |-> LowerChar(s[i])]

\* str.replace(ch, '') for a one-character ch.
Remove(s, ch) == SelectSeq(s, LAMBDA c : c # ch)

\* str.isalnum(): non-empty and every character alphanumeric.
IsAlnum(s) == Len(s) > 0 /\ \A i \in DOMAIN s : IsAlnumChar(s[i])

\* ------------------------------------------------------------------ inputs
Str_zen     == << "z","e","n" >>
Str_shorten == << "s","h","o","r","t","e","n" >>
Str_Shorten == << "S","h","o","r","T","E","N" >>
Str_health  == << "h","e","a","l","t","h" >>
Str_Health  == << "H","e","a","l","t","h" >>
Str_aaaaaa  == << "a","a","a","a","a","a" >>
Str_bbbbbb  == << "b","b","b","b","b","b" >>

\* Destinations.  URLCreate declares the URL as str, so str(url) is the
\* same string and the model keeps it as an opaque value.
Url_example == "https://example.com/path"
Url_fastapi == "https://fastapi.tiangolo.com/"

\* Referer headers.
Ref_a == "a.com"
Ref_b == "b.com"

\* Python's None for Optional values: None is the empty tuple, v is <<v>>.
None    == << >>
Some(v) == << v >>
IsNone(o) == o = << >>
Val(o)  == o[1]

\* A run serves the requests of one workload: the workers that serve, the
\* destinations, custom codes and expirations the shorten requests carry,
\* the codes the random source yields (generate_short_code draws from all
\* 62^6), the codes the path parameters carry, whether time passes, the
\* Referer headers of the visitors, the rows analytics may hold, and the
\* codes the requests for a hard delete carry.
Load_race ==
    [name |-> "race", workers |-> Workers,
     urls |-> { Url_example, Url_fastapi },
     aliases |-> { None, Some(Str_zen) },
     days |-> { None },
     gen |-> { Str_aaaaaa },
     paths |-> { Str_zen, Str_aaaaaa },
     ticks |-> FALSE,
     referers |-> { None }, visits |-> MaxVisits,
     deletes |-> { }]

Load_generator ==
    [name |-> "generator", workers |-> Workers,
     urls |-> { Url_example },
     aliases |-> { None },
     days |-> { None },
     gen |-> { Str_aaaaaa, Str_bbbbbb },
     paths |-> { Str_aaaaaa, Str_bbbbbb },
     ticks |-> FALSE,
     referers |-> { None }, visits |-> MaxVisits,
     deletes |-> { }]

Load_expiry ==
    [name |-> "expiry", workers |-> Workers,
     urls |-> { Url_example },
     aliases |-> { Some(Str_zen) },
     days |-> { Some(0), Some(MaxDays) },
     gen |-> { Str_aaaaaa },
     paths |-> { Str_zen },
     ticks |-> TRUE,
     referers |-> { None }, visits |-> MaxVisits,
     deletes |-> { }]

Load_aliases ==
    [name |-> "aliases", workers |-> { "w1" },
     urls |-> { Url_example },
     aliases |-> { None, Some(<< >>), Some(Str_zen), Some(Str_shorten),
                   Some(Str_Health) },
     days |-> { None },
     gen |-> { Str_health },
     paths |-> { Str_zen, Str_health },
     ticks |-> FALSE,
     referers |-> { None }, visits |-> MaxVisits,
     deletes |-> { }]

Load_referers ==
    [name |-> "referers", workers |-> { "w1" },
     urls |-> { Url_example },
     aliases |-> { Some(Str_zen) },
     days |-> { None },
     gen |-> { Str_aaaaaa },
     paths |-> { Str_zen },
     ticks |-> FALSE,
     referers |-> { None, Some(Ref_a), Some(Ref_b) }, visits |-> MaxVisits + 1,
     deletes |-> { }]

\* The workload of SpecDelete: two workers, so that a hard delete runs
\* between the steps of the other handlers.
Load_delete ==
    [name |-> "delete", workers |-> Workers,
     urls |-> { Url_example },
     aliases |-> { None, Some(Str_zen) },
     days |-> { None },
     gen |-> { Str_aaaaaa },
     paths |-> { Str_zen },
     ticks |-> FALSE,
     referers |-> { None }, visits |-> MaxVisits,
     deletes |-> { Str_zen }]

\* The workloads of the program as src/ holds it.
Loads == { Load_race, Load_generator, Load_expiry, Load_aliases,
           Load_referers }

\* --------------------------------------------------------- src/schemas.py
ReservedAliases ==
    { << "s","h","o","r","t","e","n" >>, << "s","t","a","t","s" >>,
      << "q","r" >>, << "u","r","l","s" >>,
      << "h","e","a","l","t","h" >>, << "d","o","c","s" >>,
      << "r","e","d","o","c" >>,
      << "o","p","e","n","a","p","i",".","j","s","o","n" >> }

\* URLCreate.validate_custom_alias, with the field's max_length: TRUE when
\* the request body is accepted.  An absent or empty alias passes unchecked.
validate_custom_alias(v) ==
    \/ IsNone(v)
    \/ /\ Len(Val(v)) <= MaxAliasLength
       /\ \/ Len(Val(v)) = 0
          \/ /\ IsAlnum(Remove(Remove(Val(v), "-"), "_"))
             /\ Lower(Val(v)) \notin ReservedAliases

\* Python truthiness of an Optional[str] and of an Optional[int].
TruthyStr(o) == ~IsNone(o) /\ Len(Val(o)) > 0
TruthyInt(o) == ~IsNone(o) /\ Val(o) # 0

\* ----------------------------------------------------------- src/utils.py
\* generate_short_code(length): the codes it can return when the random
\* source yields the codes of gen.
generate_short_code(gen, length) ==
    { s \in gen : Len(s) = length /\ \A i \in 1..length : IsAlnumChar(s[i]) }

\* calculate_expiration_date(days) when the clock reads t.
calculate_expiration_date(days, t) == t + days

\* An expiration check that finds a link expired at its deadline already.
expired_at_deadline(expires_at, t) ==
    IF IsNone(expires_at) THEN FALSE ELSE t >= Val(expires_at)

\* An expiration check that never finds a link expired.
never_expired(expires_at, t) == FALSE

\* is_url_expired(expires_at) when the clock reads t.
is_url_expired(expires_at, t) ==
    IF IsNone(expires_at) THEN FALSE ELSE t > Val(expires_at)

\* -------------------------------------------------------------------- state
VARIABLES
    urls,       \* table urls: sequence of rows, row i has id i
    analytics,  \* table analytics: sequence of rows, row i has id i
    now,        \* what datetime.utcnow() returns
    pc,         \* per worker: where its handler stands
    req,        \* per worker: the request it serves
    loc,        \* per worker: the handler's local variables
    out,        \* the request answered by the step just taken, and the response
    hist,       \* per urls row: the request that made it, the number of
                \* redirects answered 307 and the Referer headers of the
                \* visits committed
    checked,    \* per analytics row: the clock its request's expiration check read
    load        \* the workload of this run

vars == << urls, analytics, now, pc, req, loc, out, hist, checked, load >>

NoReq == [op |-> "none", url |-> "", custom_code |-> None,
          expires_in_days |-> None, short_code |-> << >>, referer |-> None]

NoLoc == [short_code |-> << >>, expires_at |-> None, url_entry |-> None,
          checked_at |-> None]

\* A response: the status and the fields the handlers fill.  analytics is
\* the list of AnalyticsEntry of get_analytics, each kept as its referer.
NoResp == [status |-> 0, short_code |-> << >>, url |-> "", is_active |-> TRUE,
           total_clicks |-> 0, analytics |-> << >>]

Reply(status) == [NoResp EXCEPT !.status = status]

NoOut == [req |-> NoReq, resp |-> NoResp]

\* ------------------------------------------------------ src/database.py
\* The largest id of a table.  An Integer primary key of SQLite is the
\* rowid: an insert takes the largest rowid in the table plus one.
LastId(table) ==
    IF table = << >> THEN 0
    ELSE LET ids == { table[i].id : i \in DOMAIN table }
         IN  CHOOSE n \in ids : \A m \in ids : m <= n

\* The position in the table of the row with the primary key id.
At(table, id) == CHOOSE i \in DOMAIN table : table[i].id = id

\* URL(original_url=..., short_code=..., expires_at=...) as inserted when
\* the largest id of the table is n and the clock reads t.
URL(n, original_url, short_code, expires_at, t) ==
    [id |-> n + 1, original_url |-> original_url, short_code |-> short_code,
     created_at |-> t, expires_at |-> expires_at, is_active |-> 1]

\* A visit attached to the first link instead of the one resolved.
AnalyticsOfFirst(n, url_id, referer, t) ==
    [id |-> n + 1, url_id |-> 1, visited_at |-> t, referer |-> referer]

\* Analytics(url_id=..., referer=...) as inserted when the largest id of the
\* table is n and the clock reads t.
Analytics(n, url_id, referer, t) ==
    [id |-> n + 1, url_id |-> url_id, visited_at |-> t, referer |-> referer]

\* A lookup that passes over deactivated rows.
FindActiveByCode(table, short_code) ==
    LET hits == { i \in DOMAIN table :
                    table[i].short_code = short_code /\ table[i].is_active = 1 }
    IN  IF hits = {} THEN None
        ELSE Some(table[CHOOSE i \in hits : \A j \in hits : i <= j])

\* A lookup that forgets its filter: the first row, whatever its code.
FindFirstRow(table, short_code) ==
    IF table = << >> THEN None ELSE Some(table[1])

\* db.query(URL).filter(URL.short_code == short_code).first()
FindByCode(table, short_code) ==
    LET hits == { i \in DOMAIN table : table[i].short_code = short_code }
    IN  IF hits = {} THEN None
        ELSE Some(table[CHOOSE i \in hits : \A j \in hits : i <= j])

\* The row with the primary key id, as a session loads it again: None when
\* the row is no longer stored.
FindById(table, id) ==
    IF \E i \in DOMAIN table : table[i].id = id
    THEN Some(table[At(table, id)])
    ELSE None

\* db.query(Analytics).filter(Analytics.url_id == url_id).all()
VisitsOf(table, url_id) == SelectSeq(table, LAMBDA a : a.url_id = url_id)

\* A column declared without unique=True: no insert is refused.
NoUniqueIndex(table, short_code) == FALSE

\* The unique index on urls.short_code: TRUE when the insert is refused.
UniqueViolation(table, short_code) ==
    \E i \in DOMAIN table : table[i].short_code = short_code

\* A deactivation that flips the flag instead of clearing it.
Toggled(table, id) ==
    [i \in DOMAIN table |->
        IF table[i].id = id THEN [table[i] EXCEPT !.is_active = 1 - @]
        ELSE table[i]]

\* A deactivation that deletes the row.
Removed(table, id) == SelectSeq(table, LAMBDA row : row.id # id)

\* A deactivation whose UPDATE has lost its WHERE clause.
DeactivatedAll(table, id) ==
    [i \in DOMAIN table |-> [table[i] EXCEPT !.is_active = 0]]

\* UPDATE urls SET is_active = 0 WHERE id = :id
Deactivated(table, id) ==
    [i \in DOMAIN table |->
        IF table[i].id = id THEN [table[i] EXCEPT !.is_active = 0] ELSE table[i]]

Creating  == { p \in Workers : pc[p] \in { "shGen", "shInsert" } }
Resolving == { p \in Workers : pc[p] \in { "rdExpiry", "rdTrack" } }

LinkBudget  == LastId(urls) + Cardinality(Creating) < MaxLinks
VisitBudget == LastId(analytics) + Cardinality(Resolving) < load.visits

\* The tables are empty and every worker is idle.
Start ==
    /\ urls = << >>
    /\ analytics = << >>
    /\ now = 0
    /\ pc = [p \in Workers |-> "idle"]
    /\ req = [p \in Workers |-> NoReq]
    /\ loc = [p \in Workers |-> NoLoc]
    /\ out = NoOut
    /\ hist = << >>
    /\ checked = << >>

Init == Start /\ load \in Loads

\* Time passes.
Tick ==
    /\ load.ticks
    /\ now < MaxTime
    /\ now' = now + 1
    /\ out' = NoOut
    /\ UNCHANGED << urls, analytics, pc, req, loc, hist, checked, load >>

\* Worker p answers request r with response w and is free again.
Done(p, r, w) ==
    /\ pc' = [pc EXCEPT ![p] = "idle"]
    /\ req' = [req EXCEPT ![p] = NoReq]
    /\ loc' = [loc EXCEPT ![p] = NoLoc]
    /\ out' = [req |-> r, resp |-> w]

\* Worker p goes on serving request r at label, with locals l.
Goto(p, r, label, l) ==
    /\ pc' = [pc EXCEPT ![p] = label]
    /\ req' = [req EXCEPT ![p] = r]
    /\ loc' = [loc EXCEPT ![p] = l]
    /\ out' = NoOut

\* ------------------------------------------------ POST /shorten (main.py)
\* The expiration shorten_url computes when the clock reads t.
ExpiresAt(days, t) ==
    IF TruthyInt(days) THEN Some(calculate_expiration_date(Val(days), t))
    ELSE None

\* The request arrives: lines 62-70 and 79-82 for a custom code, or the
\* loop of lines 72-77 is entered.  The handler takes custom_code as it is.
ShortenArrive(p, url, custom_code, days) ==
    LET r == [NoReq EXCEPT !.op = "shorten", !.url = url,
                           !.custom_code = custom_code,
                           !.expires_in_days = days]
    IN
    /\ pc[p] = "idle"
    /\ UNCHANGED << urls, analytics, now, hist, checked, load >>
    /\ IF TruthyStr(custom_code)
       THEN IF ~IsNone(FindByCode(urls, Val(custom_code)))
            THEN Done(p, r, Reply(HTTP_400_BAD_REQUEST))
            ELSE /\ LinkBudget
                 /\ Goto(p, r, "shInsert",
                         [NoLoc EXCEPT !.short_code = Val(custom_code),
                                       !.expires_at = ExpiresAt(days, now)])
       ELSE /\ LinkBudget
            /\ Goto(p, r, "shGen", NoLoc)

\* One turn of the loop of lines 73-77; leaving it, lines 79-82.
ShortenGenerate(p, code) ==
    /\ pc[p] = "shGen"
    /\ UNCHANGED << urls, analytics, now, hist, checked, load >>
    /\ IF ~IsNone(FindByCode(urls, code))
       THEN Goto(p, req[p], "shGen", [NoLoc EXCEPT !.short_code = code])
       ELSE Goto(p, req[p], "shInsert",
                 [NoLoc EXCEPT !.short_code = code,
                               !.expires_at = ExpiresAt(req[p].expires_in_days, now)])

\* Lines 84-92: the insert and its commit.
ShortenInsert(p) ==
    /\ pc[p] = "shInsert"
    /\ UNCHANGED << analytics, now, checked, load >>
    /\ IF UniqueViolation(urls, loc[p].short_code)
       THEN /\ Done(p, req[p], Reply(HTTP_500_INTEGRITY_ERROR))
            /\ UNCHANGED << urls, hist >>
       ELSE LET db_url == URL(LastId(urls), req[p].url, loc[p].short_code,
                              loc[p].expires_at, now)
            IN  /\ urls' = Append(urls, db_url)
                /\ hist' = Append(hist, [given |-> req[p].url,
                                         code |-> req[p].custom_code,
                                         ttl |-> req[p].expires_in_days,
                                         served |-> 0, refs |-> << >>])
                /\ Goto(p, req[p], "shRefresh",
                        [loc[p] EXCEPT !.url_entry = Some(db_url)])

\* Lines 93-107: db.refresh(db_url) reads the row again by its primary key,
\* and the response is built from what it read.  A row that is gone makes
\* the refresh raise.
ShortenRefresh(p) ==
    LET db_url == FindById(urls, Val(loc[p].url_entry).id)
    IN
    /\ pc[p] = "shRefresh"
    /\ UNCHANGED << urls, analytics, now, hist, checked, load >>
    /\ IF IsNone(db_url)
       THEN Done(p, req[p], Reply(HTTP_500_INTEGRITY_ERROR))
       ELSE Done(p, req[p], [Reply(HTTP_201_CREATED) EXCEPT
                                !.short_code = Val(db_url).short_code,
                                !.url = Val(db_url).original_url,
                                !.is_active = Val(db_url).is_active # 0])

\* --------------------------------------------- GET /{short_code} (main.py)
\* The request arrives: lines 116-130, the lookup and the activity check.
RedirectLookup(p, short_code, referer) ==
    LET r == [NoReq EXCEPT !.op = "redirect", !.short_code = short_code,
                           !.referer = referer]
        url_entry == FindByCode(urls, short_code)
    IN
    /\ pc[p] = "idle"
    /\ UNCHANGED << urls, analytics, now, hist, checked, load >>
    /\ IF IsNone(url_entry)
       THEN Done(p, r, Reply(HTTP_404_NOT_FOUND))
       ELSE IF Val(url_entry).is_active = 0
       THEN Done(p, r, Reply(HTTP_410_GONE))
       ELSE /\ VisitBudget
            /\ Goto(p, r, "rdExpiry", [NoLoc EXCEPT !.url_entry = url_entry])

\* Lines 132-139: the expiration check on the row as it was read, and the
\* commit of the deactivation when it has expired (the UPDATE of a row that
\* is gone matches nothing, and the commit raises).
RedirectExpiry(p) ==
    LET url_entry == Val(loc[p].url_entry)
    IN
    /\ pc[p] = "rdExpiry"
    /\ UNCHANGED << analytics, now, hist, checked, load >>
    /\ IF ~IsNone(url_entry.expires_at) /\ is_url_expired(url_entry.expires_at, now)
       THEN /\ urls' = Deactivated(urls, url_entry.id)
            /\ IF IsNone(FindById(urls, url_entry.id))
               THEN Done(p, req[p], Reply(HTTP_500_INTEGRITY_ERROR))
               ELSE Done(p, req[p], Reply(HTTP_410_GONE))
       ELSE /\ urls' = urls
            /\ Goto(p, req[p], "rdTrack", [loc[p] EXCEPT !.checked_at = Some(now)])

\* Lines 141-150: the visit is inserted and committed.
RedirectTrack(p) ==
    LET url_entry == Val(loc[p].url_entry)
    IN
    /\ pc[p] = "rdTrack"
    /\ UNCHANGED << urls, now, load >>
    /\ analytics' = Append(analytics, Analytics(LastId(analytics), url_entry.id,
                                                req[p].referer, now))
    /\ hist' = [i \in DOMAIN hist |->
                  IF urls[i].id = url_entry.id
                  THEN [hist[i] EXCEPT !.refs = Append(@, req[p].referer)]
                  ELSE hist[i]]
    /\ checked' = Append(checked, Val(loc[p].checked_at))
    /\ Goto(p, req[p], "rdReload", loc[p])

\* Lines 152-154: the commit has expired the session's objects, so reading
\* url_entry.original_url loads the row again by its primary key; the 307
\* carries what it read.  A row that is gone makes the load raise.
RedirectReload(p) ==
    LET url_entry == FindById(urls, Val(loc[p].url_entry).id)
    IN
    /\ pc[p] = "rdReload"
    /\ UNCHANGED << urls, analytics, now, checked, load >>
    /\ IF IsNone(url_entry)
       THEN /\ Done(p, req[p], Reply(HTTP_500_INTEGRITY_ERROR))
            /\ hist' = hist
       ELSE /\ Done(p, req[p], [Reply(HTTP_307_TEMPORARY_REDIRECT) EXCEPT
                                   !.url = Val(url_entry).original_url])
            /\ hist' = [hist EXCEPT
                          ![At(urls, Val(url_entry).id)].served = @ + 1]

\* ----------------------------------------- DELETE /url/{short_code} (main.py)
\* The request arrives: lines 239-245.
DeactivateLookup(p, short_code) ==
    LET r == [NoReq EXCEPT !.op = "deactivate", !.short_code = short_code]
        url_entry == FindByCode(urls, short_code)
    IN
    /\ pc[p] = "idle"
    /\ UNCHANGED << urls, analytics, now, hist, checked, load >>
    /\ IF IsNone(url_entry)
       THEN Done(p, r, Reply(HTTP_404_NOT_FOUND))
       ELSE Goto(p, r, "deCommit", [NoLoc EXCEPT !.url_entry = url_entry])

\* Lines 247-250.  The session writes only what changed: for a row read
\* with is_active = 0 the assignment changes nothing and the commit emits
\* no UPDATE.  For a row read active the UPDATE goes by the primary key; it
\* matches nothing when the row is gone, and the commit raises.
DeactivateCommit(p) ==
    LET url_entry == Val(loc[p].url_entry)
    IN
    /\ pc[p] = "deCommit"
    /\ UNCHANGED << analytics, now, hist, checked, load >>
    /\ IF url_entry.is_active = 0
       THEN /\ urls' = urls
            /\ Done(p, req[p], Reply(HTTP_200_OK))
       ELSE /\ urls' = Deactivated(urls, url_entry.id)
            /\ IF IsNone(FindById(urls, url_entry.id))
               THEN Done(p, req[p], Reply(HTTP_500_INTEGRITY_ERROR))
               ELSE Done(p, req[p], Reply(HTTP_200_OK))

\* --------------------------------------- GET /analytics/{short_code} (main.py)
\* The request arrives: lines 167-174, the first query.
GetAnalytics(p, short_code) ==
    LET r == [NoReq EXCEPT !.op = "analytics", !.short_code = short_code]
        url_entry == FindByCode(urls, short_code)
    IN
    /\ pc[p] = "idle"
    /\ UNCHANGED << urls, analytics, now, hist, checked, load >>
    /\ IF IsNone(url_entry)
       THEN Done(p, r, Reply(HTTP_404_NOT_FOUND))
       ELSE Goto(p, r, "anEntries", [NoLoc EXCEPT !.url_entry = url_entry])

\* Lines 176-203: the second query, on analytics, and the response, whose
\* url_info is the row as the first query read it.
GetAnalyticsEntries(p) ==
    LET url_entry == Val(loc[p].url_entry)
        analytics_entries == VisitsOf(analytics, url_entry.id)
    IN
    /\ pc[p] = "anEntries"
    /\ UNCHANGED << urls, analytics, now, hist, checked, load >>
    /\ Done(p, req[p], [Reply(HTTP_200_OK) EXCEPT
                            !.short_code = url_entry.short_code,
                            !.url = url_entry.original_url,
                            !.is_active = url_entry.is_active # 0,
                            !.total_clicks = Len(analytics_entries),
                            !.analytics =
                                [k \in DOMAIN analytics_entries |->
                                    analytics_entries[k].referer]])

\* ---------------------------------------------- GET /qr/{short_code} (main.py)
\* Lines 211-231.  The image is a function of the short URL alone.
GetQrCode(p, short_code) ==
    LET r == [NoReq EXCEPT !.op = "qr", !.short_code = short_code]
        url_entry == FindByCode(urls, short_code)
    IN
    /\ pc[p] = "idle"
    /\ UNCHANGED << urls, analytics, now, hist, checked, load >>
    /\ IF IsNone(url_entry)
       THEN Done(p, r, Reply(HTTP_404_NOT_FOUND))
       ELSE Done(p, r, [Reply(HTTP_200_OK) EXCEPT !.short_code = short_code])

\* ------------------------------------------------ delete_link (spec 4.3)
\* The rows of seq at the positions of keep, in their order.
Pick(seq, keep) ==
    [j \in 1..Cardinality(keep) |->
        seq[CHOOSE i \in keep : Cardinality({ k \in keep : k <= i }) = j]]

\* The hard delete: the link and, by the cascade of the relationship, all
\* of its visits are removed in one commit.
DeleteLink(p, short_code) ==
    LET r == [NoReq EXCEPT !.op = "delete", !.short_code = short_code]
        link == FindByCode(urls, short_code)
    IN
    /\ pc[p] = "idle"
    /\ UNCHANGED << now, load >>
    /\ IF IsNone(link)
       THEN /\ Done(p, r, Reply(HTTP_404_NOT_FOUND))
            /\ UNCHANGED << urls, analytics, hist, checked >>
       ELSE LET links == { i \in DOMAIN urls : urls[i].id # Val(link).id }
                visits == { k \in DOMAIN analytics :
                              analytics[k].url_id # Val(link).id }
            IN  /\ urls' = Pick(urls, links)
                /\ hist' = Pick(hist, links)
                /\ analytics' = Pick(analytics, visits)
                /\ checked' = Pick(checked, visits)
                /\ Done(p, r, Reply(HTTP_200_OK))

\* --------------------------------------------------------- specification
Shorten ==
    \E p \in load.workers, url \in load.urls, custom_code \in load.aliases,
       days \in load.days :
        ShortenArrive(p, url, custom_code, days)

Generate ==
    \E p \in load.workers, code \in generate_short_code(load.gen, CodeLength) :
        ShortenGenerate(p, code)

Insert == \E p \in load.workers : ShortenInsert(p)

Refresh == \E p \in load.workers : ShortenRefresh(p)

Redirect ==
    \E p \in load.workers, short_code \in load.paths, referer \in load.referers :
        RedirectLookup(p, short_code, referer)

Expiry == \E p \in load.workers : RedirectExpiry(p)

Track == \E p \in load.workers : RedirectTrack(p)

Reload == \E p \in load.workers : RedirectReload(p)

Deactivate == \E p \in load.workers, short_code \in load.paths : DeactivateLookup(p, short_code)

Commit == \E p \in load.workers : DeactivateCommit(p)

Stats == \E p \in load.workers, short_code \in load.paths : GetAnalytics(p, short_code)

Entries == \E p \in load.workers : GetAnalyticsEntries(p)

Qr == \E p \in load.workers, short_code \in load.paths : GetQrCode(p, short_code)

Delete == \E p \in load.workers, short_code \in load.deletes : DeleteLink(p, short_code)

Next ==
    \/ Tick
    \/ Shorten
    \/ Generate
    \/ Insert
    \/ Refresh
    \/ Redirect
    \/ Expiry
    \/ Track
    \/ Reload
    \/ Deactivate
    \/ Commit
    \/ Stats
    \/ Entries
    \/ Qr

Spec == Init /\ [][Next]_vars

\* The program with the hard delete of section 4.3 of spec.md beside its
\* handlers, under the workload that deletes.
InitDelete == Start /\ load = Load_delete

NextDelete ==
    \/ Shorten
    \/ Generate
    \/ Insert
    \/ Refresh
    \/ Redirect
    \/ Expiry
    \/ Track
    \/ Reload
    \/ Deactivate
    \/ Commit
    \/ Stats
    \/ Entries
    \/ Qr
    \/ Delete

SpecDelete == InitDelete /\ [][NextDelete]_vars

\* The continuation of a handler already started by worker p.
Continue(p) ==
    \/ \E code \in generate_short_code(load.gen, CodeLength) : ShortenGenerate(p, code)
    \/ ShortenInsert(p)
    \/ ShortenRefresh(p)
    \/ RedirectExpiry(p)
    \/ RedirectTrack(p)
    \/ RedirectReload(p)
    \/ DeactivateCommit(p)
    \/ GetAnalyticsEntries(p)

\* The loop of shorten_url leaves with a code that is free.
LeaveLoop(p) ==
    \E code \in generate_short_code(load.gen, CodeLength) :
        ShortenGenerate(p, code) /\ pc'[p] = "shInsert"

\* A started handler keeps running, and a random source that can yield a
\* free code again and again does yield one.
FairSpec ==
    /\ Spec
    /\ \A p \in Workers : WF_vars(Continue(p)) /\ SF_vars(LeaveLoop(p))

\* --------------------------------------------------------------- properties
\* The rows of urls with the given short code.
RowsOf(short_code) == { i \in DOMAIN urls : urls[i].short_code = short_code }

\* The number of analytics rows of the urls row i.
Clicks(i) ==
    Cardinality({ k \in DOMAIN analytics : analytics[k].url_id = urls[i].id })

\* The step just taken answered a request op with some response.
Answered(op) == out.req.op = op /\ out.resp.status # 0

\* C1: no two rows of urls have the same short_code, whatever their
\* is_active flag and expiration, in every reachable state.
C1_ShortCodeUnique ==
    \A i, j \in DOMAIN urls :
        urls[i].short_code = urls[j].short_code => i = j

\* C1 witness: the unique index has just refused a second insert of a code,
\* while two links are stored and one of them is deactivated.
C1_Witness ==
    /\ Answered("shorten")
    /\ out.resp.status = HTTP_500_INTEGRITY_ERROR
    /\ Len(urls) >= 2
    /\ \E i \in DOMAIN urls : urls[i].is_active = 0

\* C2: a shorten request with a valid custom code is answered 201 or with
\* the 400 "already exists", never with another error, also when another
\* request with the same custom code runs concurrently.
C2_AliasRaceOutcome ==
    ( /\ Answered("shorten")
      /\ TruthyStr(out.req.custom_code)
      /\ validate_custom_alias(out.req.custom_code) )
    => out.resp.status \in { HTTP_201_CREATED, HTTP_400_BAD_REQUEST }

\* C3: for a link created with expires_in_days = 0, an expiration check made
\* after the creation time answers 410, deactivates the link and records no
\* visit.
C3_ZeroTtlIsGone ==
    [][ \A p \in Workers :
          ( /\ pc[p] = "rdExpiry"
            /\ pc'[p] # "rdExpiry"
            /\ hist[At(urls, Val(loc[p].url_entry).id)].ttl = Some(0)
            /\ now > urls[At(urls, Val(loc[p].url_entry).id)].created_at )
          => ( /\ out'.resp.status = HTTP_410_GONE
               /\ urls'[At(urls', Val(loc[p].url_entry).id)].is_active = 0
               /\ analytics' = analytics ) ]_vars

\* C4: a redirect answered 307 carries the destination given to the shorten
\* request that created the link with that code; a redirect on a stored code
\* is answered 307 or, the link being inactive, 410; every stored row keeps
\* the destination it was created with.
C4_RoundTrip ==
    /\ \A i \in DOMAIN urls : urls[i].original_url = hist[i].given
    /\ ( Answered("shorten") /\ out.resp.status = HTTP_201_CREATED )
         => \E i \in RowsOf(out.resp.short_code) : hist[i].given = out.req.url
    /\ Answered("redirect") =>
         \/ /\ out.resp.status = HTTP_307_TEMPORARY_REDIRECT
            /\ \E i \in RowsOf(out.req.short_code) : out.resp.url = hist[i].given
         \/ /\ out.resp.status = HTTP_410_GONE
            /\ \E i \in RowsOf(out.req.short_code) : urls[i].is_active = 0
         \/ /\ out.resp.status = HTTP_404_NOT_FOUND
            /\ RowsOf(out.req.short_code) = {}

\* C4 witness: the second of two links, made for another destination than
\* the first, resolves to its own destination after the first link was
\* visited and deactivated.
C4_Witness ==
    /\ Answered("redirect")
    /\ out.resp.status = HTTP_307_TEMPORARY_REDIRECT
    /\ Len(urls) = 2
    /\ out.req.short_code = urls[2].short_code
    /\ out.resp.url = hist[2].given
    /\ hist[1].given # hist[2].given
    /\ urls[1].is_active = 0
    /\ Clicks(1) > 0

\* C5 as claimed: no analytics row of a link with an expiration is committed
\* at a time later than the expiration (visited_at is the commit time).
C5_NoVisitCommittedAfterExpiry ==
    \A k \in DOMAIN analytics :
        LET e == urls[At(urls, analytics[k].url_id)].expires_at
        IN  ~IsNone(e) => analytics[k].visited_at <= Val(e)

\* C5 amended: every analytics row of a link with an expiration was written
\* by a request whose expiration check, made before the commit, read a clock
\* not later than the expiration; the commit itself may come later.
C5_VisitCheckedBeforeExpiry ==
    \A k \in DOMAIN analytics :
        LET e == urls[At(urls, analytics[k].url_id)].expires_at
        IN  /\ checked[k] <= analytics[k].visited_at
            /\ ~IsNone(e) => checked[k] <= Val(e)

\* C5 witness: a visit committed after the expiration of its link, by a
\* request that checked the expiration in time.
C5_Witness ==
    \E k \in DOMAIN analytics :
        LET e == urls[At(urls, analytics[k].url_id)].expires_at
        IN  /\ ~IsNone(e)
            /\ checked[k] <= Val(e)
            /\ analytics[k].visited_at > Val(e)

\* C6: once a row of urls has is_active = 0, no step sets it back to 1, and
\* no redirect on it that has yet to record its visit is taken further
\* towards the answer with the destination: it neither passes the checks of
\* lines 125-139 nor commits the visit of lines 141-150.  (A redirect whose
\* visit was committed while the row was active may still send its answer.)
C6_DeactivationOneWay ==
    [][ \A i \in DOMAIN urls :
          urls[i].is_active = 0 =>
            /\ \A j \in DOMAIN urls' :
                  urls'[j].id = urls[i].id => urls'[j].is_active = 0
            /\ \A p \in Workers :
                  ( /\ pc[p] \in {"rdExpiry", "rdTrack"}
                    /\ ~IsNone(loc[p].url_entry)
                    /\ Val(loc[p].url_entry).id = urls[i].id )
                  => pc'[p] \notin {"rdTrack", "rdReload"} ]_vars

\* The request that arrives in a step: answered at once, or taken on by a
\* worker that was idle.
Arriving ==
    IF pc' = pc /\ out'.resp.status # 0 THEN out'.req
    ELSE IF \E p \in Workers : pc[p] = "idle" /\ pc'[p] # "idle"
         THEN req'[CHOOSE p \in Workers : pc[p] = "idle" /\ pc'[p] # "idle"]
         ELSE NoReq

\* C7: a shorten request whose custom code is the short_code of a stored
\* link (active or not) is answered 400 at once and changes neither urls
\* nor analytics.
C7_StoredAliasIsTaken ==
    [][ ( /\ Arriving.op = "shorten"
          /\ TruthyStr(Arriving.custom_code)
          /\ RowsOf(Val(Arriving.custom_code)) # {} )
        => ( /\ out'.req = Arriving
             /\ out'.resp.status = HTTP_400_BAD_REQUEST
             /\ urls' = urls
             /\ analytics' = analytics ) ]_vars

\* C7 witness: the 400 was answered for the code of a deactivated link that
\* has a visit.
C7_Witness ==
    /\ Answered("shorten")
    /\ out.resp.status = HTTP_400_BAD_REQUEST
    /\ \E i \in RowsOf(Val(out.req.custom_code)) :
          urls[i].is_active = 0 /\ Clicks(i) > 0

\* The reserved custom codes the requests carry, in both spellings.
ReservedInputs ==
    { Some(Str_shorten), Some(Str_Shorten), Some(Str_health), Some(Str_Health) }

C9_GeneratedShortenTerminates ==
    \A p \in Workers :
        (Cardinality(load.gen) > 1 /\ pc[p] = "shGen") ~> (pc[p] = "idle")

\* The number of rows of a table of visits that belong to the link id.
ClicksIn(table, id) ==
    Cardinality({ k \in DOMAIN table : table[k].url_id = id })

\* The redirect requests on the link id that have committed their visit and
\* have not sent their 307 yet, where the workers stand at pcs with locs.
Unanswered(pcs, locs, id) ==
    { p \in Workers : pcs[p] = "rdReload" /\ Val(locs[p].url_entry).id = id }

\* C10: the rows of analytics of a link are as many as the redirects on its
\* code answered 307 plus those that have committed their visit and are
\* about to be answered 307; a redirect adds exactly one row, for its link,
\* in the step before its 307, and a redirect answered otherwise has added
\* none; and get_analytics reports as total_clicks the number of rows the
\* link has when its second query reads them.
C10_ClickCount ==
    [][ /\ \A i \in DOMAIN urls' :
              ClicksIn(analytics', urls'[i].id)
                  = hist'[i].served
                      + Cardinality(Unanswered(pc', loc', urls'[i].id))
        /\ \A p \in Workers :
              ( pc[p] = "rdTrack" /\ pc'[p] # "rdTrack" ) =>
                  /\ pc'[p] = "rdReload"
                  /\ Len(analytics') = Len(analytics) + 1
                  /\ SubSeq(analytics', 1, Len(analytics)) = analytics
                  /\ urls[At(urls, analytics'[Len(analytics')].url_id)].short_code
                         = req[p].short_code
        /\ \A p \in Workers :
              ( pc[p] = "rdReload" /\ pc'[p] # "rdReload" ) =>
                  /\ out'.req = req[p]
                  /\ out'.resp.status = HTTP_307_TEMPORARY_REDIRECT
                  /\ analytics' = analytics
        /\ ( out'.req.op = "redirect" /\ out'.resp.status # 0 ) =>
              IF out'.resp.status = HTTP_307_TEMPORARY_REDIRECT
              THEN \E p \in Workers : pc[p] = "rdReload" /\ pc'[p] = "idle"
              ELSE /\ analytics' = analytics
                   /\ \A p \in Workers : pc[p] = "rdReload" => pc'[p] = "rdReload"
        /\ \A p \in Workers :
              ( pc[p] = "anEntries" /\ pc'[p] # "anEntries" ) =>
                  /\ out'.req = req[p]
                  /\ out'.resp.status = HTTP_200_OK
                  /\ \E i \in RowsOf(req[p].short_code) :
                        /\ out'.resp.total_clicks = Clicks(i)
                        /\ out'.resp.total_clicks
                              = hist[i].served
                                  + Cardinality(Unanswered(pc, loc, urls[i].id)) ]_vars

\* C10 witness: get_analytics reports two clicks for a link while a second
\* link is stored and one of the two is deactivated.
C10_Witness ==
    /\ Answered("analytics")
    /\ out.resp.status = HTTP_200_OK
    /\ out.resp.total_clicks = 2
    /\ Len(urls) = 2
    /\ \E i \in DOMAIN urls : urls[i].is_active = 0

\* C11: a redirect request on a code that no row of urls has is answered
\* 404, and one on a code whose row has is_active = 0 is answered 410; both
\* are answered at once, and the step changes neither urls nor analytics.
C11_FailedResolveLeavesStore ==
    [][ Arriving.op = "redirect" =>
          /\ RowsOf(Arriving.short_code) = { } =>
                /\ out'.req = Arriving
                /\ out'.resp.status = HTTP_404_NOT_FOUND
                /\ urls' = urls
                /\ analytics' = analytics
          /\ ( \E i \in RowsOf(Arriving.short_code) : urls[i].is_active = 0 ) =>
                /\ out'.req = Arriving
                /\ out'.resp.status = HTTP_410_GONE
                /\ urls' = urls
                /\ analytics' = analytics ]_vars

\* C11 witness: a redirect was answered 410 for a link without expiration
\* that was deactivated after it had been visited.
C11_Witness ==
    /\ Answered("redirect")
    /\ out.resp.status = HTTP_410_GONE
    /\ \E i \in RowsOf(out.req.short_code) :
          /\ urls[i].is_active = 0
          /\ IsNone(urls[i].expires_at)
          /\ Clicks(i) > 0

\* The worker's step commits a deactivation: the explicit one of
\* deactivate_url, or the one redirect_url makes on expiration.
Deactivating(p) ==
    \/ pc[p] = "deCommit" /\ pc'[p] = "idle"
    \/ pc[p] = "rdExpiry" /\ pc'[p] = "idle"

\* C12: a step that commits a deactivation, explicit or on expiration,
\* leaves the addressed row with is_active = 0 and its other fields as they
\* were, leaves every other row and all of analytics unchanged, changes
\* nothing at all when the row was inactive already (as it is for the second
\* of two concurrent deactivations), and answers its normal outcome: 200 for
\* the explicit deactivation, 410 for the expiration; a deactivate request
\* is never answered otherwise than 200 or 404.
C12_DeactivationIdempotent ==
    [][ /\ \A p \in Workers :
              Deactivating(p) =>
                LET id == Val(loc[p].url_entry).id
                IN  /\ out'.req = req[p]
                    /\ out'.resp.status =
                          IF pc[p] = "deCommit" THEN HTTP_200_OK ELSE HTTP_410_GONE
                    /\ analytics' = analytics
                    /\ DOMAIN urls' = DOMAIN urls
                    /\ \A i \in DOMAIN urls :
                          urls'[i] = IF urls[i].id = id
                                     THEN [urls[i] EXCEPT !.is_active = 0]
                                     ELSE urls[i]
                    /\ ( \A i \in DOMAIN urls :
                            urls[i].id = id => urls[i].is_active = 0 )
                          => urls' = urls
        /\ ( out'.req.op = "deactivate" /\ out'.resp.status # 0 )
              => out'.resp.status \in { HTTP_200_OK, HTTP_404_NOT_FOUND } ]_vars

\* C12 witness: an explicit deactivation of a visited link has just been
\* committed while a redirect that read the link as active, and finds it
\* expired, is about to deactivate it again.
C12_Witness ==
    /\ Answered("deactivate")
    /\ out.resp.status = HTTP_200_OK
    /\ \E p \in Workers, i \in RowsOf(out.req.short_code) :
          /\ pc[p] = "rdExpiry"
          /\ Val(loc[p].url_entry).id = urls[i].id
          /\ Val(loc[p].url_entry).is_active = 1
          /\ is_url_expired(urls[i].expires_at, now)
          /\ urls[i].is_active = 0
          /\ Clicks(i) > 0

\* C13: a step that commits a deactivation, explicit or on expiration,
\* removes no row: the addressed row is still in urls, now inactive, urls
\* has as many rows as before, and analytics is unchanged, so the link has
\* the visits it had; and get_analytics on the code of an inactive link is
\* not refused and is answered 200 with the number of visits the link has
\* stored, which are all the visits ever committed for it.
C13_DeactivationKeepsData ==
    [][ /\ \A p \in Workers :
              Deactivating(p) =>
                LET id == Val(loc[p].url_entry).id
                IN  /\ Len(urls') = Len(urls)
                    /\ \E i \in DOMAIN urls' :
                          /\ urls'[i].id = id
                          /\ urls'[i].is_active = 0
                          /\ urls'[i].short_code = req[p].short_code
                    /\ analytics' = analytics
                    /\ Len(VisitsOf(analytics', id)) = Len(VisitsOf(analytics, id))
        /\ \A i \in DOMAIN urls :
              ( /\ urls[i].is_active = 0
                /\ Arriving.op = "analytics"
                /\ Arriving.short_code = urls[i].short_code )
              => \E p \in Workers : pc[p] = "idle" /\ pc'[p] = "anEntries"
        /\ \A p \in Workers, i \in DOMAIN urls :
              ( /\ pc[p] = "anEntries"
                /\ pc'[p] # "anEntries"
                /\ urls[i].id = Val(loc[p].url_entry).id
                /\ urls[i].is_active = 0 )
              => /\ out'.req = req[p]
                 /\ out'.resp.status = HTTP_200_OK
                 /\ out'.resp.total_clicks = Clicks(i)
                 /\ out'.resp.total_clicks = Len(hist[i].refs) ]_vars

\* C13 witness: get_analytics was answered 200 with a click for an inactive
\* link whose expiration has passed.
C13_Witness ==
    /\ Answered("analytics")
    /\ out.resp.status = HTTP_200_OK
    /\ out.resp.total_clicks >= 1
    /\ \E i \in RowsOf(out.req.short_code) :
          /\ urls[i].is_active = 0
          /\ is_url_expired(urls[i].expires_at, now)

\* C14: a delete request on a stored code is answered 200 and its step
\* removes the row of that code from urls and every row of that link from
\* analytics, and nothing else: the other rows of both tables stay, in
\* their order; afterwards no row has the code, so a lookup finds nothing.
\* A delete request on an unknown code is answered 404 and changes nothing.
\* After every step, each row of analytics belongs to a stored link and
\* each stored link has all the visits served for it.
C14_DeleteCascades ==
    [][ /\ Arriving.op = "delete" =>
              /\ out'.req = Arriving
              /\ IF RowsOf(Arriving.short_code) = { }
                 THEN /\ out'.resp.status = HTTP_404_NOT_FOUND
                      /\ urls' = urls
                      /\ analytics' = analytics
                 ELSE \A i \in RowsOf(Arriving.short_code) :
                      /\ out'.resp.status = HTTP_200_OK
                      /\ IsNone(FindByCode(urls', Arriving.short_code))
                      /\ urls' = SelectSeq(urls, LAMBDA row : row.id # urls[i].id)
                      /\ analytics' =
                            SelectSeq(analytics, LAMBDA a : a.url_id # urls[i].id)
                      /\ Len(urls') = Len(urls) - 1
                      /\ Len(analytics') = Len(analytics) - Clicks(i)
        /\ \A k \in DOMAIN analytics' :
              \E i \in DOMAIN urls' : urls'[i].id = analytics'[k].url_id
        /\ \A i \in DOMAIN urls' :
              Cardinality({ k \in DOMAIN analytics' :
                              analytics'[k].url_id = urls'[i].id })
                  = Len(hist'[i].refs) ]_vars

\* The sum of the counts of a mapping.
RECURSIVE SumOver(_, _)
SumOver(mapping, keys) ==
    IF keys = { } THEN 0
    ELSE LET key == CHOOSE k \in keys : TRUE
         IN  mapping[key] + SumOver(mapping, keys \ { key })

\* C15: a get_analytics answered 200 for a code carries, for the link of
\* that code, a referrers mapping whose keys are the referers of its rows of
\* analytics, "Direct" standing for a row without referer, each key mapped
\* to the number of the rows under it; the counts sum to the click count;
\* and after redirects served for the link with the Referer headers
\* "a.com", "b.com" and none, in that order and no others, the mapping is
\* a.com: 1, b.com: 1, Direct: 1.
C15_ReferrersMapping ==
    ( Answered("analytics") /\ out.resp.status = HTTP_200_OK ) =>
        /\ "referrers" \in DOMAIN out.resp
        /\ LET served == out.resp.analytics
               under(key) ==
                    { k \in DOMAIN served :
                        \/ key = "Direct" /\ IsNone(served[k])
                        \/ served[k] = Some(key) }
               referrers == out.resp.referrers
           IN  /\ DOMAIN referrers =
                     { key \in { "Direct", Ref_a, Ref_b } : under(key) # { } }
               /\ \A key \in DOMAIN referrers :
                     referrers[key] = Cardinality(under(key))
               /\ SumOver(referrers, DOMAIN referrers) = out.resp.total_clicks
               /\ served = << Some(Ref_a), Some(Ref_b), None >>
                     => referrers = [key \in { Ref_a, Ref_b, "Direct" } |-> 1]

\* C16: a shorten request without a custom code, answered while the random
\* source can still yield a code that no row has, is answered 201 with a
\* link: a candidate taken by a concurrent request between the check and
\* the insert is replaced by a new one, and no error reaches the caller.
C16_GeneratedShortenRetries ==
    ( /\ Answered("shorten")
      /\ ~TruthyStr(out.req.custom_code)
      /\ validate_custom_alias(out.req.custom_code)
      /\ \E code \in generate_short_code(load.gen, CodeLength) :
            RowsOf(code) = { } )
    => /\ out.resp.status = HTTP_201_CREATED
       /\ RowsOf(out.resp.short_code) # { }

\* C17: no step adds a row of analytics for a link whose stored row has
\* is_active = 0: a redirect that read the row as active before a
\* deactivation was committed writes no visit after that commit.
C17_NoVisitWhileInactive ==
    [][ \A i \in DOMAIN urls :
          urls[i].is_active = 0 =>
            Cardinality({ k \in DOMAIN analytics' :
                            analytics'[k].url_id = urls[i].id })
                <= Clicks(i) ]_vars

\* The request a step serves: the one it answers, or the one of the worker
\* it moves; none when only time passes.
Serving ==
    IF out'.resp.status # 0 THEN out'.req
    ELSE IF \E p \in Workers : pc'[p] # pc[p] \/ loc'[p] # loc[p]
         THEN req'[CHOOSE p \in Workers : pc'[p] # pc[p] \/ loc'[p] # loc[p]]
         ELSE NoReq

\* The step leaves the is_active flag of every row as it was.
FlagsKept ==
    \A i \in DOMAIN urls, j \in DOMAIN urls' :
        urls'[j].id = urls[i].id => urls'[j].is_active = urls[i].is_active

\* C18: a step takes the is_active flag of a row from 1 to 0 only when it
\* answers a deactivate request on the row's code with 200, or answers a
\* redirect request on the row's code with 410 while the row has an
\* expiration and the clock reads strictly more than it; the steps of
\* shorten, get_analytics and the QR code, and the steps of
\* a redirect on a link without expiration or with the clock at or before
\* its expiration, leave every flag as it was.
C18_OnlyDeactivationClearsFlag ==
    [][ /\ \A i \in DOMAIN urls, j \in DOMAIN urls' :
              ( /\ urls'[j].id = urls[i].id
                /\ urls[i].is_active = 1
                /\ urls'[j].is_active = 0 )
              => /\ out'.req.short_code = urls[i].short_code
                 /\ \/ /\ out'.req.op = "deactivate"
                       /\ out'.resp.status = HTTP_200_OK
                    \/ /\ out'.req.op = "redirect"
                       /\ out'.resp.status = HTTP_410_GONE
                       /\ ~IsNone(urls[i].expires_at)
                       /\ Val(urls[i].expires_at) < now
        /\ Serving.op \in { "shorten", "analytics", "qr" } => FlagsKept
        /\ ( /\ Serving.op = "redirect"
             /\ \A i \in RowsOf(Serving.short_code) :
                   \/ IsNone(urls[i].expires_at)
                   \/ now <= Val(urls[i].expires_at) )
           => FlagsKept ]_vars

\* C18 witness: a redirect was served for a link whose expiration check read
\* a clock equal to the expiration, and the link is still active.
C18_Witness ==
    /\ Answered("redirect")
    /\ out.resp.status = HTTP_307_TEMPORARY_REDIRECT
    /\ \E i \in RowsOf(out.req.short_code) :
          /\ ~IsNone(urls[i].expires_at)
          /\ checked[Len(checked)] = Val(urls[i].expires_at)
          /\ analytics[Len(analytics)].url_id = urls[i].id
          /\ now = Val(urls[i].expires_at)
          /\ urls[i].is_active = 1

\* C19: no step changes the short_code, original_url, created_at or
\* expires_at of a row (rows being told apart by their id); and a step of a
\* redirect or of a deactivation keeps the rows of urls, changes at most
\* the is_active flag of the row of the addressed code, to 0, and leaves
\* every row that analytics held as it was.
C19_LinkFieldsImmutable ==
    [][ /\ \A i \in DOMAIN urls, j \in DOMAIN urls' :
              urls'[j].id = urls[i].id =>
                /\ urls'[j].short_code = urls[i].short_code
                /\ urls'[j].original_url = urls[i].original_url
                /\ urls'[j].created_at = urls[i].created_at
                /\ urls'[j].expires_at = urls[i].expires_at
        /\ Serving.op \in { "redirect", "deactivate" } =>
              /\ DOMAIN urls' = DOMAIN urls
              /\ \A i \in DOMAIN urls :
                    \/ urls'[i] = urls[i]
                    \/ /\ urls[i].short_code = Serving.short_code
                       /\ urls'[i] = [urls[i] EXCEPT !.is_active = 0]
              /\ Len(analytics') >= Len(analytics)
              /\ SubSeq(analytics', 1, Len(analytics)) = analytics ]_vars

\* C19 witness: the second of two visited links has just been deactivated
\* and the first, made for another destination, is still active.
C19_Witness ==
    /\ Answered("deactivate")
    /\ out.resp.status = HTTP_200_OK
    /\ Len(urls) = 2
    /\ out.req.short_code = urls[2].short_code
    /\ urls[2].is_active = 0
    /\ urls[1].is_active = 1
    /\ urls[1].original_url # urls[2].original_url
    /\ Clicks(1) > 0
    /\ Clicks(2) > 0

====
